---- MODULE Spec2Model ----
(***************************************************************************)
(* The mini-emergent controller (src/controller/server.js): the in-memory  *)
(* registry of running projects, the start / stop handlers, the stream and *)
(* exit callbacks wired by wireProcessLoggingAndCleanup, the bounded log   *)
(* buffer and the logs / running queries.                                  *)
(*                                                                         *)
(* Node runs every handler and callback to completion on one thread, and   *)
(* no handler awaits, so each handler and each callback is one atomic      *)
(* action.  The child processes, the clock, the file system outside the    *)
(* handlers and the HTTP clients are the environment: their choices are    *)
(* the \E-bound inputs of the actions.  The response of a handler is an    *)
(* operator of the state it runs in and of its inputs; a request that is   *)
(* rejected, and a query, leave every variable unchanged.                  *)
(***************************************************************************)
EXTENDS Integers, Sequences, FiniteSets, TLC

VARIABLES
    runningProjects,  \* the Map: project name -> reference (index in heap) of its record
    heap,             \* the record objects, by reference; a record no handler or
                      \* callback can reach any more is garbage (Collected)
    procs,            \* the subprocess object behind each record: whether it has a
                      \* child process, whether its promise has settled, and the
                      \* strongest signal delivered to the child
    timers,           \* the pending forced-kill timers: the subprocess object each
                      \* one signals, and the pid of that object
    projectDirs,      \* the projects directory: name -> set of files of that project
    now,              \* the wall clock read by new Date()
    history,          \* per record, every entry ever appended to its logs, in order,
                      \* with the subprocess whose callback appended it (0: a request)
    removals,         \* per record: how often it was removed from the Map, by the
                      \* callback of which subprocess, and whether the last entry of
                      \* its buffer was then the terminal entry of that callback
    forced,           \* the forced-kill signals delivered: the subprocess whose timer
                      \* fired and the subprocess whose child received SIGKILL
    bound             \* the bounds of the behaviour: records created and entries
                      \* per buffer; never changes

vars == <<runningProjects, heap, procs, timers, projectDirs, now,
          history, removals, forced, bound>>

(***************************************************************************)
(* Bounds of the model.                                                    *)
(***************************************************************************)
MaxInst == 2        \* records created in one behaviour
MaxAppends == 3     \* entries in one buffer before streams and stop requests pause
MaxUnder == 1       \* entries short of the capacity when the buffer specification starts
MaxOver == 2        \* entries appended beyond the capacity in the buffer specification
LiveInst == 1       \* records created in one behaviour of the liveness specification
LiveAppends == 3    \* entries in one buffer in the liveness specification
PairAppends == 2    \* entries in one buffer in the two-project specification

(***************************************************************************)
(* Program constants.                                                      *)
(***************************************************************************)
MAX_LOG_LINES == 500
DEFAULT_LIMIT == 200
GRACE_MS == 5000

(***************************************************************************)
(* Values.  A JavaScript string is the sequence of its characters.         *)
(***************************************************************************)
Str(chars) == [type |-> "string", chars |-> chars]
Undefined == [type |-> "undefined", chars |-> <<>>]

Letters == {"a", "b"}
Digits == {"0"}
\* the character class [a-zA-Z0-9-_] restricted to the characters of the model
NameClass == Letters \cup Digits \cup {"-", "_"}

\* validateProjectName: a string of one or more characters of the class
validateProjectName(name) ==
    /\ name.type = "string"
    /\ Len(name.chars) > 0
    /\ \A k \in 1..Len(name.chars) : name.chars[k] \in NameClass

NameA == Str(<<"a">>)
NameB == Str(<<"b", "-", "0">>)
ValidNames == {NameA, NameB}
InvalidNames == {Str(<<".", ".", "/", "a">>), Undefined}
NameInputs == ValidNames \cup InvalidNames
\* the names clients ask to create: the second valid name never gets a directory
CreateNames == {NameA} \cup InvalidNames

\* an optional field of a request body or query: absent, or given with a value
Absent == [given |-> FALSE, value |-> ""]
AbsentArgs == [given |-> FALSE, value |-> [isArray |-> FALSE, items |-> <<>>]]
Given(v) == [given |-> TRUE, value |-> v]
\* destructuring default, `const { x = d } = req.body`
OrDefault(opt, d) == IF opt.given THEN opt.value ELSE d

\* path.join(PROJECTS_DIR, name) and path.join(TEMPLATES_DIR, name)
getProjectPath(name) == <<"projects", name.chars>>
getTemplatePath(name) == <<"templates", name>>

\* the templates directory, which the controller only reads
Templates == {"basic-app", "static"}
TemplateFiles(t) == IF t = "basic-app" THEN {"package.json", "index.js"} ELSE {"index.html"}
TemplateInputs == {Absent, Given("static"), Given("missing")}

\* request values for command and args of POST /projects/start
StrItem(s) == [type |-> "string", v |-> s]
NumItem(s) == [type |-> "number", v |-> s]
ArrayOf(items) == [isArray |-> TRUE, items |-> items]
NotArray == [isArray |-> FALSE, items |-> <<>>]
DefaultArgs == ArrayOf(<<StrItem("start")>>)
StartBody(command, args) == [command |-> command, args |-> args]
StartBodies ==
    {StartBody(Absent, AbsentArgs),
     StartBody(Given("node"), Given(ArrayOf(<<StrItem("app.js")>>))),
     StartBody(Absent, Given(ArrayOf(<<StrItem("run"), NumItem("1")>>))),
     StartBody(Given("node"), Given(NotArray))}

\* mutant: args is not validated
ValidArgsAny(args) == TRUE

\* !Array.isArray(args) || args.some((arg) => typeof arg !== "string"), negated
ValidArgs(args) ==
    /\ args.isArray
    /\ \A k \in 1..Len(args.items) : args.items[k].type = "string"

\* args.join(" "): the texts of the items, in order
JoinArgs(args) == [k \in 1..Len(args.items) |-> args.items[k].v]

(***************************************************************************)
(* Log buffer.  An entry `${timestamp} ${type} ${line}` is the record of   *)
(* its three parts; n numbers the chunks of one stream in arrival order.   *)
(***************************************************************************)
Entry(ts, type, line, n) == [ts |-> ts, type |-> type, line |-> line, n |-> n]

Min(a, b) == IF a < b THEN a ELSE b
Max(a, b) == IF a > b THEN a ELSE b

\* Array.prototype.slice(start) with one argument
JsSlice(seq, start) ==
    LET len == Len(seq)
        from == IF start < 0 THEN Max(len + start, 0) ELSE Min(start, len)
    IN  SubSeq(seq, from + 1, len)

\* Array.prototype.splice(0, count): the array without its first count elements
JsSpliceHead(seq, count) == SubSeq(seq, Min(Max(count, 0), Len(seq)) + 1, Len(seq))

\* mutant: the overflow is cut from the tail, logs.splice(MAX_LOG_LINES)
appendLogDropsNewest(logs, line) ==
    LET pushed == Append(logs, line)
    IN  SubSeq(pushed, 1, Min(Len(pushed), MAX_LOG_LINES))

\* appendLog(project, line): push, then drop the oldest entries beyond the capacity
appendLog(logs, line) ==
    LET pushed == Append(logs, line)
    IN  IF Len(pushed) > MAX_LOG_LINES
        THEN JsSpliceHead(pushed, Len(pushed) - MAX_LOG_LINES)
        ELSE pushed

(***************************************************************************)
(* Records, subprocesses and responses.                                    *)
(***************************************************************************)
NoPid == 0          \* subprocess.pid of a subprocess that failed to spawn (undefined)
\* the process ids the operating system hands out, and the readings of the clock
Pids == {1, 2}
Times == {0, 1}

Refs == 1..Len(heap)

\* subprocess i has a child process: spawned, and its exit not yet observed
Alive(i) == procs[i].child /\ ~procs[i].settled

\* a subprocess object after its promise has settled
Settled == [child |-> FALSE, settled |-> TRUE, sig |-> "none"]

FreePids == Pids \ {heap[i].pid : i \in {j \in Refs : Alive(j)}}

\* ({ process: _, ...project }) => project
serializeRunningProject(rec) ==
    [name |-> rec.name, pid |-> rec.pid, projectPath |-> rec.projectPath,
     command |-> rec.command, args |-> rec.args, startedAt |-> rec.startedAt,
     status |-> rec.status, logs |-> rec.logs]

\* res.status(status).json({ error }), and res.json({ ok: true, ... }) with status 200
Reply(status, error) == [status |-> status, error |-> error]
InvalidNameReply == Reply(400, "Valid project name required")

\* mutants of the guard: no guard at all, and a guard that looks at the status
AlreadyRunningNever(name) == FALSE
AlreadyRunningWhileRunning(name) ==
    /\ name \in DOMAIN runningProjects
    /\ heap[runningProjects[name]].status = "running"

\* runningProjects.has(name), the guard of POST /projects/start
AlreadyRunning(name) == name \in DOMAIN runningProjects

\* mutant: the start handler does not register the record
MapSetNot(map, name, ref) == map

\* runningProjects.set(name, ref)
MapSet(map, name, ref) ==
    [k \in DOMAIN map \cup {name} |-> IF k = name THEN ref ELSE map[k]]

\* mutant: the settle callback clears the Map, runningProjects.clear()
MapDeleteAll(map, name) == [k \in {} |-> 0]

\* runningProjects.delete(name)
MapDelete(map, name) == [k \in DOMAIN map \ {name} |-> map[k]]

\* mutant: the create handler does not look for the directory
DirExistsNever(path) == FALSE

\* fs.existsSync on a project directory and on its package.json
DirExists(path) == path \in DOMAIN projectDirs
ManifestExists(path) == DirExists(path) /\ "package.json" \in projectDirs[path]

EmptyMap == [k \in {} |-> 0]

\* what is left of a record object that nothing references any more
Collected ==
    [name |-> Undefined, pid |-> NoPid, projectPath |-> <<>>, command |-> "",
     args |-> NotArray, startedAt |-> 0, status |-> "collected", logs |-> <<>>,
     process |-> 0]

Appended(line, by) == [entry |-> line, by |-> by]
NotRemoved == [count |-> 0, by |-> 0, closed |-> FALSE]

\* the chunks of one stream of subprocess ref delivered so far
ChunksSoFar(ref, type) ==
    Cardinality({k \in 1..Len(history[ref]) :
                    history[ref][k].by = ref /\ history[ref][k].entry.type = type})

Init ==
    /\ runningProjects = EmptyMap
    /\ heap = <<>>
    /\ procs = <<>>
    /\ timers = {}
    /\ projectDirs = EmptyMap
    /\ now = 0
    /\ history = <<>>
    /\ removals = <<>>
    /\ forced = {}
    /\ bound = [inst |-> MaxInst, appends |-> MaxAppends]

(***************************************************************************)
(* POST /projects/create.  copy is what fs.cpSync does: "ok", "partial"    *)
(* (it throws after creating the directory) or "none" (it throws before).  *)
(***************************************************************************)
CreateReply(name, templateIn, copy) ==
    LET template == OrDefault(templateIn, "basic-app")
    IN  IF ~validateProjectName(name) THEN InvalidNameReply
        ELSE IF template \notin Templates THEN Reply(404, "Template not found")
        ELSE IF DirExists(getProjectPath(name)) THEN Reply(409, "Project already exists")
        ELSE IF copy # "ok" THEN Reply(500, "Failed to create project")
        ELSE Reply(200, "")

Create(name, templateIn, copy) ==
    LET template == OrDefault(templateIn, "basic-app")
        reply == CreateReply(name, templateIn, copy)
    IN  IF reply.status \in {400, 404, 409} \/ copy = "none"
        THEN UNCHANGED vars
        ELSE /\ projectDirs' =
                    [p \in DOMAIN projectDirs \cup {getProjectPath(name)} |->
                        IF p = getProjectPath(name)
                        THEN (IF copy = "ok" THEN TemplateFiles(template) ELSE {})
                        ELSE projectDirs[p]]
             /\ UNCHANGED <<runningProjects, heap, procs, timers, now,
                            history, removals, forced, bound>>

(***************************************************************************)
(* POST /projects/start.  spawn is what execa does: "ok" (a child process  *)
(* with a pid), "fail" (no child: the returned promise rejects later and   *)
(* subprocess.pid is undefined) or "throw" (execa throws synchronously).   *)
(***************************************************************************)
\* mutant: args are validated before the registry is consulted
StartReplyArgsFirst(name, body, spawn) ==
    LET command == OrDefault(body.command, "npm")
        args == OrDefault(body.args, DefaultArgs)
    IN  IF ~validateProjectName(name) THEN InvalidNameReply
        ELSE IF ~ValidArgs(args) THEN Reply(400, "args must be an array of strings")
        ELSE IF AlreadyRunning(name) THEN Reply(409, "Project already running")
        ELSE IF ~DirExists(getProjectPath(name))
        THEN Reply(404, "Project directory not found")
        ELSE IF command = "npm" /\ ~ManifestExists(getProjectPath(name))
        THEN Reply(400, "No package.json found for project")
        ELSE IF spawn = "throw" THEN Reply(500, "Failed to start project")
        ELSE Reply(200, "")

StartReply(name, body, spawn) ==
    LET command == OrDefault(body.command, "npm")
        args == OrDefault(body.args, DefaultArgs)
    IN  IF ~validateProjectName(name) THEN InvalidNameReply
        ELSE IF AlreadyRunning(name) THEN Reply(409, "Project already running")
        ELSE IF ~ValidArgs(args) THEN Reply(400, "args must be an array of strings")
        ELSE IF ~DirExists(getProjectPath(name))
        THEN Reply(404, "Project directory not found")
        ELSE IF command = "npm" /\ ~ManifestExists(getProjectPath(name))
        THEN Reply(400, "No package.json found for project")
        ELSE IF spawn = "throw" THEN Reply(500, "Failed to start project")
        ELSE Reply(200, "")

NewRecord(name, pid, command, args, ref) ==
    [name |-> name, pid |-> pid, projectPath |-> getProjectPath(name),
     command |-> command, args |-> args, startedAt |-> now, status |-> "running",
     logs |-> <<Entry(now, "[system]", <<"started command:", command>> \o JoinArgs(args), 0)>>,
     process |-> ref]

Start(name, body, spawn, pid) ==
    LET command == OrDefault(body.command, "npm")
        args == OrDefault(body.args, DefaultArgs)
        ref == Len(heap) + 1
        state == NewRecord(name, pid, command, args, ref)
    IN  IF StartReply(name, body, spawn).status # 200
        THEN UNCHANGED vars
        ELSE /\ Len(heap) < bound.inst
             /\ IF spawn = "ok" THEN pid \in FreePids ELSE pid = NoPid
             /\ heap' = Append(heap, state)
             /\ procs' = Append(procs, [child |-> spawn = "ok", settled |-> FALSE,
                                        sig |-> "none"])
             /\ runningProjects' = MapSet(runningProjects, name, ref)
             /\ history' = Append(history, <<Appended(state.logs[1], 0)>>)
             /\ removals' = Append(removals, NotRemoved)
             /\ UNCHANGED <<timers, projectDirs, now, forced, bound>>

(***************************************************************************)
(* wireProcessLoggingAndCleanup: the callbacks of subprocess ref.  The     *)
(* stream callbacks write to `state`, the record captured when they were   *)
(* wired; the settle callbacks look the record up by project name.  execa  *)
(* settles the promise of a subprocess after its output streams have       *)
(* ended, so a stream delivers chunks only before the promise settles.     *)
(***************************************************************************)
StreamData(ref, type) ==
    /\ ref \in Refs
    /\ Alive(ref)
    /\ Len(history[ref]) < bound.appends
    /\ LET line == Entry(now, type, <<"chunk">>, ChunksSoFar(ref, type) + 1)
       IN  /\ heap' = [heap EXCEPT ![ref].logs = appendLog(@, line)]
           /\ history' = [history EXCEPT ![ref] = Append(@, Appended(line, ref))]
    /\ UNCHANGED <<runningProjects, procs, timers, projectDirs, now, removals,
                   forced, bound>>

\* the line of the terminal entry, for the fulfilled and the rejected promise
ExitLine(outcome) ==
    IF outcome = "success"
    THEN <<"process exited successfully">>
    ELSE <<"process exited with error:", "shortMessage">>

\* mutant: the rejection callback forgets runningProjects.delete
ExitCleanupKeepsOnError(map, name, outcome) ==
    IF outcome = "error" THEN map ELSE [k \in DOMAIN map \ {name} |-> map[k]]

\* the Map after the settle callback of a subprocess named name has run
ExitCleanup(map, name, outcome) == MapDelete(map, name)

\* subprocess.then(onFulfilled, onRejected): the promise of ref settles
ExitObserved(ref, outcome) ==
    /\ ref \in Refs
    /\ ~procs[ref].settled
    /\ procs[ref].child \/ outcome = "error"
    /\ procs' = [procs EXCEPT ![ref] = Settled]
    /\ LET projectName == heap[ref].name
           found == projectName \in DOMAIN runningProjects
           current == IF found THEN runningProjects[projectName] ELSE ref
           line == Entry(now, "[system]", ExitLine(outcome), 0)
           map == IF found THEN ExitCleanup(runningProjects, projectName, outcome)
                  ELSE runningProjects
           logs == IF found THEN appendLog(heap[current].logs, line) ELSE heap[current].logs
           gone == found /\ projectName \notin DOMAIN map
           garbage == {j \in Refs : procs'[j].settled /\ \A k \in DOMAIN map : map[k] # j}
       IN  /\ runningProjects' = map
           /\ heap' = [j \in Refs |->
                          IF j \in garbage THEN Collected
                          ELSE IF j = current THEN [heap[j] EXCEPT !.logs = logs]
                          ELSE heap[j]]
           /\ history' = [j \in Refs |->
                             IF j \in garbage THEN <<>>
                             ELSE IF j = current /\ found
                             THEN Append(history[j], Appended(line, ref))
                             ELSE history[j]]
           /\ removals' = IF gone
                          THEN [removals EXCEPT ![current] =
                                   [count |-> @.count + 1, by |-> ref,
                                    closed |-> logs[Len(logs)] = line]]
                          ELSE removals
    /\ UNCHANGED <<timers, projectDirs, now, forced, bound>>

(***************************************************************************)
(* POST /projects/stop.  state.process.kill("SIGTERM", {forceKillAfter-    *)
(* Delay: 5000}) signals through the subprocess object: it reaches the     *)
(* child of that object while the child has not exited and is a no-op      *)
(* afterwards; when the signal was delivered a timer is set that sends     *)
(* SIGKILL through the same object after the grace period.  kill is        *)
(* "sent" or "throw" (signal delivery failed).                             *)
(***************************************************************************)
StopReply(name, kill) ==
    IF ~validateProjectName(name) THEN InvalidNameReply
    ELSE IF name \notin DOMAIN runningProjects THEN Reply(404, "Project is not running")
    ELSE IF kill = "throw" THEN Reply(500, "Failed to stop project")
    ELSE Reply(200, "")

\* mutant: the stop handler of the first snapshot, which sets no status
MarkStoppingNot(rec) == rec

\* mutant: the stop handler also forgets the pid of the record
MarkStoppingClearsPid(rec) == [rec EXCEPT !.status = "stopping", !.pid = NoPid]

\* state.status = "stopping"
MarkStopping(rec) == [rec EXCEPT !.status = "stopping"]

\* mutant: the signal goes to the process id, process.kill(state.pid, signal)
SignalTargetsByPid(ref, pid) ==
    {j \in 1..Len(heap) : procs[j].child /\ ~procs[j].settled /\ heap[j].pid = pid}

\* the children a signal sent through subprocess ref, of process id pid, reaches
SignalTargets(ref, pid) == IF Alive(ref) THEN {ref} ELSE {}

\* mutant: a plain kill("SIGTERM") that schedules no forced kill
ScheduleEscalationNever(pending, reached) == pending

\* the pending forced-kill timers after a SIGTERM reached the children `reached`
ScheduleEscalation(pending, reached) ==
    pending \cup {[ref |-> j, pid |-> heap[j].pid] : j \in reached}

Stop(name, kill) ==
    IF StopReply(name, kill).status \in {400, 404}
    THEN UNCHANGED vars
    ELSE LET ref == runningProjects[name]
             line == Entry(now, "[system]", <<"stop requested">>, 0)
             reached == SignalTargets(heap[ref].process, heap[ref].pid)
         IN  /\ Len(history[ref]) < bound.appends
             /\ heap' = [heap EXCEPT ![ref] =
                            [MarkStopping(@) EXCEPT !.logs = appendLog(@, line)]]
             /\ history' = [history EXCEPT ![ref] = Append(@, Appended(line, 0))]
             /\ IF kill = "throw"
                THEN UNCHANGED <<procs, timers>>
                ELSE /\ procs' = [j \in DOMAIN procs |->
                                    IF j \in reached /\ procs[j].sig = "none"
                                    THEN [procs[j] EXCEPT !.sig = "term"]
                                    ELSE procs[j]]
                     /\ timers' = ScheduleEscalation(timers, reached)
             /\ UNCHANGED <<runningProjects, projectDirs, now, removals, forced, bound>>

\* a forced-kill timer fires, GRACE_MS after the SIGTERM that set it
Escalate(timer) ==
    /\ timer \in timers
    /\ timers' = timers \ {timer}
    /\ LET reached == SignalTargets(timer.ref, timer.pid)
       IN  /\ procs' = [j \in DOMAIN procs |->
                          IF j \in reached THEN [procs[j] EXCEPT !.sig = "kill"] ELSE procs[j]]
           /\ forced' = forced \cup {[timer |-> timer.ref, target |-> j] : j \in reached}
    /\ UNCHANGED <<runningProjects, heap, projectDirs, now, history, removals, bound>>

(***************************************************************************)
(* GET /projects/running and GET /projects/:name/logs?limit=               *)
(***************************************************************************)
RunningReply ==
    LET projects == {serializeRunningProject(heap[runningProjects[k]]) :
                        k \in DOMAIN runningProjects}
    IN  [status |-> 200, count |-> Cardinality(DOMAIN runningProjects),
         projects |-> projects]

GetRunning ==
    /\ RunningReply.status = 200
    /\ UNCHANGED vars

\* a query value: absent, a decimal integer, or text that is no number
NumQuery(v) == [given |-> TRUE, numeric |-> TRUE, val |-> v]
TextQuery == [given |-> TRUE, numeric |-> FALSE, val |-> 0]
NoQuery == [given |-> FALSE, numeric |-> FALSE, val |-> 0]

\* Number(req.query.limit): NaN for an absent or non-numeric value
ToNumber(q) ==
    [nan |-> ~(q.given /\ q.numeric), val |-> IF q.given /\ q.numeric THEN q.val ELSE 0]

\* Number(req.query.limit) || 200: NaN and 0 are falsy
LimitOf(q) ==
    LET x == ToNumber(q)
    IN  IF x.nan \/ x.val = 0 THEN DEFAULT_LIMIT ELSE x.val

LimitInputs ==
    {NoQuery, TextQuery} \cup
    {NumQuery(v) : v \in {-1, 0, 1, 2, DEFAULT_LIMIT, MAX_LOG_LINES - 1,
                          MAX_LOG_LINES, MAX_LOG_LINES + 1}}

LogsReply(name, limitIn) ==
    LET limit == LimitOf(limitIn)
    IN  IF ~validateProjectName(name)
        THEN [status |-> 400, error |-> InvalidNameReply.error, count |-> 0, logs |-> <<>>]
        ELSE IF name \notin DOMAIN runningProjects
        THEN [status |-> 404, error |-> "Project is not running", count |-> 0, logs |-> <<>>]
        ELSE LET state == heap[runningProjects[name]]
                 logs == JsSlice(state.logs, -Min(limit, MAX_LOG_LINES))
             IN  [status |-> 200, error |-> "", count |-> Len(logs), logs |-> logs]

GetLogs(name, limitIn) ==
    /\ LogsReply(name, limitIn).status \in {200, 400, 404}
    /\ UNCHANGED vars

\* the outcomes of fs.cpSync and of execa and the limits of a logs query, for the
\* requests that get that far
CopyChoices(name, t) ==
    IF CreateReply(name, t, "ok").status = 200 THEN {"ok", "partial", "none"} ELSE {"none"}
SpawnChoices(name, body) ==
    IF StartReply(name, body, "ok").status = 200 THEN {"ok", "fail", "throw"} ELSE {"throw"}

LimitChoices(name) ==
    IF LogsReply(name, NoQuery).status = 200 THEN LimitInputs ELSE {NoQuery}

\* the clock advances
Tick ==
    /\ now + 1 \in Times
    /\ now' = now + 1
    /\ UNCHANGED <<runningProjects, heap, procs, timers, projectDirs,
                   history, removals, forced, bound>>

Next ==
    \/ \E name \in CreateNames, t \in TemplateInputs :
          \E copy \in CopyChoices(name, t) : Create(name, t, copy)
    \/ \E name \in NameInputs, body \in StartBodies :
          \E spawn \in SpawnChoices(name, body) :
             \E pid \in (IF spawn = "ok" THEN FreePids ELSE {NoPid}) :
                Start(name, body, spawn, pid)
    \/ \E name \in NameInputs, kill \in {"sent", "throw"} : Stop(name, kill)
    \/ \E ref \in Refs, type \in {"[stdout]", "[stderr]"} : StreamData(ref, type)
    \/ \E ref \in Refs, outcome \in {"success", "error"} : ExitObserved(ref, outcome)
    \/ \E timer \in timers : Escalate(timer)
    \/ GetRunning
    \/ \E name \in NameInputs : \E q \in LimitChoices(name) : GetLogs(name, q)
    \/ Tick

Spec == Init /\ [][Next]_vars

(***************************************************************************)
(* The buffer specification: the same handlers and callbacks, started in   *)
(* the state the controller is in after project NameA was created and      *)
(* started with the default command and its child has written chunks to    *)
(* stdout until the buffer is MaxUnder entries short of MAX_LOG_LINES.     *)
(***************************************************************************)
FilledLogs(len) ==
    [i \in 1..len |->
        IF i = 1 THEN NewRecord(NameA, 1, "npm", DefaultArgs, 1).logs[1]
        ELSE Entry(0, "[stdout]", <<"chunk">>, i - 1)]

InitLog ==
    /\ now = 0
    /\ runningProjects = MapSet(EmptyMap, NameA, 1)
    /\ heap = <<[NewRecord(NameA, 1, "npm", DefaultArgs, 1) EXCEPT
                    !.logs = FilledLogs(MAX_LOG_LINES - MaxUnder)]>>
    /\ procs = <<[child |-> TRUE, settled |-> FALSE, sig |-> "none"]>>
    /\ timers = {}
    /\ projectDirs = [p \in {getProjectPath(NameA)} |-> TemplateFiles("basic-app")]
    /\ history = <<[i \in 1..(MAX_LOG_LINES - MaxUnder) |->
                      Appended(FilledLogs(MAX_LOG_LINES - MaxUnder)[i],
                               IF i = 1 THEN 0 ELSE 1)]>>
    /\ removals = <<NotRemoved>>
    /\ forced = {}
    /\ bound = [inst |-> 1, appends |-> MAX_LOG_LINES + MaxOver]

SpecLog == InitLog /\ [][Next]_vars

(***************************************************************************)
(* The two-project specification: the same handlers and callbacks, started *)
(* in the state the controller is in when the directories of both valid    *)
(* names exist (created from the default template) and nothing runs.  As   *)
(* many records are created as there are valid names, and the clock stands *)
(* still: every timestamp reads 0.                                         *)
(***************************************************************************)
InitPair ==
    /\ runningProjects = EmptyMap
    /\ heap = <<>>
    /\ procs = <<>>
    /\ timers = {}
    /\ projectDirs = [p \in {getProjectPath(name) : name \in ValidNames} |->
                         TemplateFiles("basic-app")]
    /\ now = 0
    /\ history = <<>>
    /\ removals = <<>>
    /\ forced = {}
    /\ bound = [inst |-> Cardinality(ValidNames), appends |-> PairAppends]

NextPair ==
    \/ \E name \in CreateNames, t \in TemplateInputs :
          \E copy \in CopyChoices(name, t) : Create(name, t, copy)
    \/ \E name \in NameInputs, body \in StartBodies :
          \E spawn \in SpawnChoices(name, body) :
             \E pid \in (IF spawn = "ok" THEN FreePids ELSE {NoPid}) :
                Start(name, body, spawn, pid)
    \/ \E name \in NameInputs, kill \in {"sent", "throw"} : Stop(name, kill)
    \/ \E ref \in Refs, type \in {"[stdout]", "[stderr]"} : StreamData(ref, type)
    \/ \E ref \in Refs, outcome \in {"success", "error"} : ExitObserved(ref, outcome)
    \/ \E timer \in timers : Escalate(timer)
    \/ GetRunning
    \/ \E name \in NameInputs : \E q \in LimitChoices(name) : GetLogs(name, q)

SpecPair == InitPair /\ [][NextPair]_vars

(***************************************************************************)
(* The liveness specification.  Node fires a timer that is set, so every   *)
(* pending forced-kill timer eventually fires; the operating system ends a *)
(* process that was sent SIGKILL and execa then settles its promise; and   *)
(* the promise of a subprocess that failed to spawn is rejected.  Nothing  *)
(* is assumed about a child that was only sent SIGTERM.                    *)
(***************************************************************************)
InitLive ==
    /\ runningProjects = EmptyMap
    /\ heap = <<>>
    /\ procs = <<>>
    /\ timers = {}
    /\ projectDirs = EmptyMap
    /\ now = 0
    /\ history = <<>>
    /\ removals = <<>>
    /\ forced = {}
    /\ bound = [inst |-> LiveInst, appends |-> LiveAppends]

\* the exit of a force-killed child, and the rejection of a failed spawn
ForcedExit(ref) ==
    /\ ref \in Refs
    /\ procs[ref].sig = "kill" \/ (~procs[ref].child /\ ~procs[ref].settled)
    /\ ExitObserved(ref, "error")

TimerInputs == {[ref |-> r, pid |-> p] : r \in 1..LiveInst, p \in Pids}

Fairness ==
    /\ \A timer \in TimerInputs : WF_vars(Escalate(timer))
    /\ \A ref \in 1..LiveInst : WF_vars(ForcedExit(ref))

SpecLive == InitLive /\ [][Next]_vars /\ Fairness

(***************************************************************************)
(* Properties.                                                             *)
(***************************************************************************)
\* record ref is the value of some key of the Map
InRegistry(ref) == \E k \in DOMAIN runningProjects : runningProjects[k] = ref

\* the record objects of a name that some handler or callback can still reach
RecordsOf(name) == {i \in Refs : heap[i] # Collected /\ heap[i].name = name}

\* the subprocess objects of a name whose promise has not settled
PendingOf(name) == {i \in RecordsOf(name) : ~procs[i].settled}

\* the names GET /projects/running lists
ListedNames == {p.name : p \in RunningReply.projects}

PidInputs == Pids \cup {NoPid}
SpawnInputs == {"ok", "fail", "throw"}

\* C1: for every project name at most one child process of the controller is
\* alive, at most one subprocess is pending and at most one record object exists,
\* and that record is the one the registry holds for the name.
C1_OneInstancePerName ==
    \A name \in ValidNames :
        /\ Cardinality({i \in Refs : Alive(i) /\ heap[i].name = name}) <= 1
        /\ Cardinality(PendingOf(name)) <= 1
        /\ Cardinality(RecordsOf(name)) <= 1
        /\ \A i \in RecordsOf(name) :
              name \in DOMAIN runningProjects /\ runningProjects[name] = i

\* C1 witness: a second instance of a name is alive after the first one exited.
C1_Witness ==
    /\ Len(heap) = 2
    /\ heap[1] = Collected
    /\ Alive(2)
    /\ NameA \in DOMAIN runningProjects /\ runningProjects[NameA] = 2

\* C2: while a name has a record (running or stopping) every start request for it
\* is answered 409 "already running", and no step that changes the state is a
\* start request for that name: no process is spawned and the record stays as it is.
C2_StartRejectedWhileRecorded ==
    [][\A name \in ValidNames :
          name \in DOMAIN runningProjects =>
             \A body \in StartBodies, spawn \in SpawnInputs :
                /\ StartReply(name, body, spawn) = Reply(409, "Project already running")
                /\ \A pid \in PidInputs : ~Start(name, body, spawn, pid)]_vars

\* C2 witness: a start request meets a record that is stopping, its child still alive.
C2_Witness ==
    /\ NameA \in DOMAIN runningProjects
    /\ heap[runningProjects[NameA]].status = "stopping"
    /\ Alive(runningProjects[NameA])
    /\ StartReply(NameA, StartBody(Absent, AbsentArgs), "ok").status = 409

\* C3: a record is in the registry exactly until the promise of its own subprocess
\* settles: it is removed once, by the settle callback of that subprocess and by
\* nothing else.
C3_RemovedOnlyByOwnExit ==
    \A ref \in Refs :
        /\ InRegistry(ref) => removals[ref].count = 0 /\ ~procs[ref].settled
        /\ ~InRegistry(ref) =>
              /\ procs[ref].settled
              /\ removals[ref].count = 1
              /\ removals[ref].by = ref

\* C3 witness: the first instance was stopped, exited and was removed, and a later
\* instance of the same name is in the registry, untouched.
C3_Witness ==
    /\ Len(heap) = 2
    /\ removals[1].count = 1
    /\ [timer |-> 1, target |-> 1] \in forced
    /\ InRegistry(2)
    /\ removals[2].count = 0

\* a stop request for the record of ref has been accepted and has reached its child
StopDelivered(ref) == procs[ref].sig # "none"

\* C4 (state part): a record whose stop was accepted and whose exit has not been
\* observed is listed by /projects/running with status stopping.
C4_ListedWhileStopping ==
    \A ref \in Refs :
        StopDelivered(ref) /\ ~procs[ref].settled =>
            /\ serializeRunningProject(heap[ref]) \in RunningReply.projects
            /\ heap[ref].status = "stopping"

\* C4: after an accepted stop the record stays listed as stopping until the exit is
\* observed, and the step that observes the exit takes the name off the list.
C4_StoppingUntilExit ==
    [][/\ C4_ListedWhileStopping'
       /\ \A ref \in Refs :
             ~procs[ref].settled /\ procs'[ref].settled /\ InRegistry(ref) =>
                heap[ref].name \notin ListedNames']_vars

\* C4 witness: the stop has returned, the child (still alive) is listed as stopping.
C4_Witness ==
    \E ref \in Refs :
        /\ StopDelivered(ref) /\ Alive(ref)
        /\ heap[ref].name \in ListedNames
        /\ heap[ref].status = "stopping"

\* C5: once the record of a name is stopping, the next state has either no record
\* for the name or the same record, still stopping.
C5_NeverBackToRunning ==
    [][\A name \in ValidNames :
          (name \in DOMAIN runningProjects
              /\ heap[runningProjects[name]].status = "stopping") =>
             \/ name \notin DOMAIN runningProjects'
             \/ /\ runningProjects'[name] = runningProjects[name]
                /\ heap'[runningProjects'[name]].status = "stopping"]_vars

\* C5 witness: a record that was stopped twice (two stop notices) is still stopping.
C5_Witness ==
    \E ref \in Refs :
        /\ InRegistry(ref)
        /\ heap[ref].status = "stopping"
        /\ Cardinality({k \in 1..Len(heap[ref].logs) :
                           heap[ref].logs[k].line = <<"stop requested">>}) = 2

\* C7: the timer of a subprocess whose record has been removed changes nothing but
\* the timer itself, and every forced kill ever delivered went to the child of the
\* subprocess whose stop scheduled it.
C7_StaleEscalationIsNoOp ==
    [][/\ \A timer \in timers :
             Escalate(timer) /\ ~InRegistry(timer.ref) =>
                UNCHANGED <<runningProjects, heap, procs, forced>>
       /\ \A f \in forced' : f.target = f.timer]_vars

\* C7 witness: the timer of the exited first instance is still pending while a
\* second instance of the same name runs under the same process id.
C7_Witness ==
    /\ Len(heap) = 2
    /\ [ref |-> 1, pid |-> 1] \in timers
    /\ procs[1].settled
    /\ Alive(2)
    /\ heap[2].pid = 1
    /\ [timer |-> 1, target |-> 1] \notin forced

\* the stop handler signalled subprocess ref and its exit has not been observed
StopPending(ref) ==
    /\ ref \in Refs
    /\ InRegistry(ref)
    /\ StopDelivered(ref) \/ (heap[ref].status = "stopping" /\ ~procs[ref].child)

\* C6: while a child that was sent SIGTERM has not exited, either its forced-kill
\* timer is pending or SIGKILL has been sent; the timer that fires on a child that
\* has not exited sends SIGKILL; and every accepted stop is eventually followed by
\* the removal of the record, whatever the child does with SIGTERM.
C6_GracefulThenForced ==
    /\ [](\A ref \in Refs :
            procs[ref].sig = "term" /\ ~procs[ref].settled =>
               [ref |-> ref, pid |-> heap[ref].pid] \in timers)
    /\ [][\A timer \in timers :
             Escalate(timer) /\ Alive(timer.ref) => procs'[timer.ref].sig = "kill"]_vars
    /\ \A ref \in 1..LiveInst :
          StopPending(ref) ~> (ref \in Refs /\ ~InRegistry(ref))

\* C6 witness: a child that ignored SIGTERM was force-killed by its timer, and the
\* record was removed when that exit was observed.
C6_Witness ==
    \E ref \in Refs :
        /\ [timer |-> ref, target |-> ref] \in forced
        /\ removals[ref].count = 1
        /\ removals[ref].by = ref
        /\ ~InRegistry(ref)

\* C8: every buffer holds at most MAX_LOG_LINES entries, and they are the last
\* MAX_LOG_LINES entries that were appended to it (all of them while fewer were
\* appended), in the order in which they were appended.
C8_BufferBoundedFifo ==
    \A ref \in Refs :
        heap[ref] # Collected =>
            LET logs == heap[ref].logs
                appended == history[ref]
                k == Max(Len(appended) - MAX_LOG_LINES, 0)
            IN  /\ Len(logs) <= MAX_LOG_LINES
                /\ Len(logs) = Len(appended) - k
                /\ \A i \in 1..Len(logs) : logs[i] = appended[i + k].entry

\* C8 witness: MAX_LOG_LINES + MaxOver entries were appended to a buffer, which
\* holds MAX_LOG_LINES of them and no longer the "started command" entry.
C8_Witness ==
    \E ref \in Refs :
        /\ heap[ref] # Collected
        /\ Len(history[ref]) = MAX_LOG_LINES + MaxOver
        /\ Len(heap[ref].logs) = MAX_LOG_LINES
        /\ heap[ref].logs[1] # history[ref][1].entry

\* the integer limits a logs query is asked with
LimitValues == {0, 1, 2, DEFAULT_LIMIT, MAX_LOG_LINES - 1, MAX_LOG_LINES, MAX_LOG_LINES + 1}

\* C9: for every integer limit L >= 0 the logs query of a recorded name answers
\* with exactly min(L, MAX_LOG_LINES, count) entries, the most recent ones of the
\* buffer in their order.  (Violated by the code for L = 0.)
C9_TailOfLimit ==
    \A name \in DOMAIN runningProjects, L \in LimitValues :
        LET logs == heap[runningProjects[name]].logs
            count == Len(logs)
            n == Min(L, Min(MAX_LOG_LINES, count))
            reply == LogsReply(name, NumQuery(L))
        IN  /\ reply.status = 200
            /\ Len(reply.logs) = n
            /\ reply.count = n
            /\ \A i \in 1..n : i <= Len(reply.logs) /\ reply.logs[i] = logs[count - n + i]

\* the lines of the terminal entries
TerminalLines == {ExitLine("success"), ExitLine("error")}

\* C10: in every buffer the terminal entry of the exit observer is the last entry
\* ever appended: nothing was appended after it, the record left the registry with
\* it as its last entry, and the chunks of each stream are in arrival order.
C10_TerminalEntryLast ==
    \A ref \in Refs :
        /\ \A k \in 1..Len(history[ref]) :
              history[ref][k].entry.line \in TerminalLines => k = Len(history[ref])
        /\ removals[ref].count > 0 => removals[ref].closed /\ heap[ref] = Collected
        /\ procs[ref].settled => ~InRegistry(ref)
        /\ heap[ref] # Collected =>
              \A i, j \in 1..Len(heap[ref].logs) :
                 (i < j /\ heap[ref].logs[i].type = heap[ref].logs[j].type
                        /\ heap[ref].logs[i].type # "[system]") =>
                    heap[ref].logs[i].n < heap[ref].logs[j].n

\* C10 witness: an instance wrote to a stream, was asked to stop and has exited:
\* its record left the registry with the terminal entry as its last entry, while a
\* later instance holds two chunks of one stream in its buffer.
C10_Witness ==
    /\ Len(heap) = 2
    /\ removals[1].count = 1 /\ removals[1].closed
    /\ procs[1].settled
    /\ heap[2] # Collected
    /\ \E i, j \in 1..Len(heap[2].logs) :
          i < j /\ heap[2].logs[i].type = "[stderr]" /\ heap[2].logs[j].type = "[stderr]"

\* C11: the registry never holds a record whose subprocess has no child process,
\* and a start whose spawn fails is answered 500.  (Violated by the code: execa
\* reports a failed spawn by rejecting its promise, not by throwing, so the handler
\* registers the record and answers 200.)
C11_NoRecordWithoutChild ==
    /\ \A name \in DOMAIN runningProjects : procs[runningProjects[name]].child
    /\ \A name \in ValidNames, body \in StartBodies :
          StartReply(name, body, "fail").status # 200

\* what a rejected request must leave alone: the registry, every record, the
\* subprocesses and the signals sent to them, the timers and the project directories
ClientErrorFrame == UNCHANGED <<runningProjects, heap, procs, timers, projectDirs>>

\* args that are not an array of strings
BadArgs(body) ==
    body.args.given /\
        (~body.args.value.isArray \/
            \E k \in 1..Len(body.args.value.items) : body.args.value.items[k].type # "string")

\* the command a start request runs
CommandOf(body) == IF body.command.given THEN body.command.value ELSE "npm"

\* C12: a request with an invalid name, a start with invalid args, for a missing
\* directory or (npm) a missing package.json, and a stop or logs request for a name
\* without a record change neither the registry, nor a record, nor the project
\* directories, and spawn and signal nothing: a step that changes any of these is
\* none of those requests.
C12_ClientErrorsHaveNoEffect ==
    [][ClientErrorFrame \/
       (/\ \A name \in InvalidNames :
             /\ \A t \in TemplateInputs, copy \in {"ok", "partial", "none"} :
                   ~Create(name, t, copy)
             /\ \A body \in StartBodies, spawn \in SpawnInputs, pid \in PidInputs :
                   ~Start(name, body, spawn, pid)
             /\ \A kill \in {"sent", "throw"} : ~Stop(name, kill)
             /\ \A q \in LimitInputs : ~GetLogs(name, q)
        /\ \A name \in ValidNames :
             /\ \A body \in StartBodies :
                   (\/ BadArgs(body)
                    \/ getProjectPath(name) \notin DOMAIN projectDirs
                    \/ /\ CommandOf(body) = "npm"
                       /\ getProjectPath(name) \in DOMAIN projectDirs
                       /\ "package.json" \notin projectDirs[getProjectPath(name)]) =>
                      \A spawn \in SpawnInputs, pid \in PidInputs :
                         ~Start(name, body, spawn, pid)
             /\ name \notin DOMAIN runningProjects =>
                   /\ \A kill \in {"sent", "throw"} : ~Stop(name, kill)
                   /\ \A q \in LimitInputs : ~GetLogs(name, q))]_vars

\* C12 witness: the directory of NameA holds no package.json and NameA has no
\* record after an earlier instance exited: starts with invalid args, with the npm
\* command and for the other name are client errors, and so are stop and logs.
C12_Witness ==
    /\ Len(heap) >= 1
    /\ NameA \notin DOMAIN runningProjects
    /\ DirExists(getProjectPath(NameA)) /\ ~ManifestExists(getProjectPath(NameA))
    /\ StartReply(NameA, StartBody(Given("node"), Given(NotArray)), "ok").status = 400
    /\ StartReply(NameA, StartBody(Absent, AbsentArgs), "ok").status = 400
    /\ StartReply(NameB, StartBody(Absent, AbsentArgs), "ok").status = 404
    /\ StopReply(NameA, "sent").status = 404
    /\ LogsReply(NameA, NoQuery).status = 404

\* the template values of a create request that name an existing template
ExistingTemplateInputs == {t \in TemplateInputs : OrDefault(t, "basic-app") \in Templates}

\* C13: once the directory of a name exists, every create for that name with an
\* existing template is answered 409 "already exists", and no step that changes a
\* project directory is such a create: the directory keeps its contents.
C13_SecondCreateRejected ==
    [][\A name \in ValidNames :
          getProjectPath(name) \in DOMAIN projectDirs =>
             /\ getProjectPath(name) \in DOMAIN projectDirs'
             /\ projectDirs'[getProjectPath(name)] = projectDirs[getProjectPath(name)]
             /\ \A t \in ExistingTemplateInputs, copy \in {"ok", "partial", "none"} :
                   /\ CreateReply(name, t, copy) = Reply(409, "Project already exists")
                   /\ projectDirs' = projectDirs \/ ~Create(name, t, copy)]_vars

\* C13 witness: NameA was created from the template "static"; a second create with
\* the default template is answered 409 and the directory holds the static files.
C13_Witness ==
    /\ getProjectPath(NameA) \in DOMAIN projectDirs
    /\ projectDirs[getProjectPath(NameA)] = TemplateFiles("static")
    /\ CreateReply(NameA, Absent, "ok").status = 409

\* the first violated precondition of a start request, in the order of the claim
FirstViolation(name, body, spawn) ==
    IF name \in InvalidNames THEN Reply(400, "Valid project name required")
    ELSE IF name \in DOMAIN runningProjects THEN Reply(409, "Project already running")
    ELSE IF BadArgs(body) THEN Reply(400, "args must be an array of strings")
    ELSE IF getProjectPath(name) \notin DOMAIN projectDirs
    THEN Reply(404, "Project directory not found")
    ELSE IF CommandOf(body) = "npm" /\ "package.json" \notin projectDirs[getProjectPath(name)]
    THEN Reply(400, "No package.json found for project")
    ELSE IF spawn = "throw" THEN Reply(500, "Failed to start project")
    ELSE Reply(200, "")

\* C14: a start request is answered with the first violated precondition in the
\* order invalid name, already running, invalid args, directory missing, manifest
\* missing (npm), spawn failure (execa throws); a start for a recorded name is
\* answered 409 whatever its args, directory and manifest.
C14_StartPrecedence ==
    \A name \in NameInputs, body \in StartBodies, spawn \in SpawnInputs :
        /\ StartReply(name, body, spawn) = FirstViolation(name, body, spawn)
        /\ (name \in ValidNames /\ name \in DOMAIN runningProjects) =>
               StartReply(name, body, spawn).status = 409

\* C14 witness: NameA has a record and a directory without package.json; a start
\* with the npm command, invalid args and a spawn that would throw is answered 409.
C14_Witness ==
    /\ NameA \in DOMAIN runningProjects
    /\ DirExists(getProjectPath(NameA)) /\ ~ManifestExists(getProjectPath(NameA))
    /\ StartReply(NameA, StartBody(Absent, Given(ArrayOf(<<StrItem("run"), NumItem("1")>>))),
                  "throw").status = 409

\* the launch fields of a record
LaunchFields(rec) ==
    [name |-> rec.name, pid |-> rec.pid, projectPath |-> rec.projectPath,
     command |-> rec.command, args |-> rec.args, startedAt |-> rec.startedAt]

\* C15: a stop request that reaches the record of a name keeps the registry and the
\* launch fields of the record, sets its status to stopping and appends exactly one
\* "stop requested" system entry, and touches no other record and no directory;
\* and no step at all changes the launch fields of a record that exists.
C15_StopChangesStatusAndLogOnly ==
    [][/\ \A ref \in Refs :
             (heap[ref] # Collected /\ heap'[ref] # Collected) =>
                LaunchFields(heap'[ref]) = LaunchFields(heap[ref])
       /\ \A name \in DOMAIN runningProjects :
             (heap'[runningProjects[name]] = heap[runningProjects[name]]) \/
             (\A kill \in {"sent", "throw"} : ~Stop(name, kill)) \/
             LET ref == runningProjects[name]
                 old == heap[ref]
                 new == heap'[ref]
             IN  /\ runningProjects' = runningProjects
                 /\ projectDirs' = projectDirs
                 /\ \A j \in Refs \ {ref} : heap'[j] = heap[j]
                 /\ new = [old EXCEPT !.status = "stopping", !.logs = new.logs]
                 /\ Len(new.logs) = Len(old.logs) + 1
                 /\ SubSeq(new.logs, 1, Len(old.logs)) = old.logs
                 /\ new.logs[Len(new.logs)].type = "[system]"
                 /\ new.logs[Len(new.logs)].line = <<"stop requested">>]_vars

\* C15 witness: a record started with command node was stopped after one chunk: it
\* is stopping, holds started, chunk and stop entries, and has its pid and command.
C15_Witness ==
    \E ref \in Refs :
        /\ InRegistry(ref)
        /\ heap[ref].status = "stopping"
        /\ heap[ref].command = "node"
        /\ heap[ref].pid \in Pids
        /\ Len(heap[ref].logs) = 3
        /\ heap[ref].logs[2].type = "[stdout]"
        /\ heap[ref].logs[3].line = <<"stop requested">>
        /\ procs[ref].sig = "term"

\* what the controller holds for a name: its record and the subprocess of the
\* record, or nothing
HeldFor(name) ==
    IF name \in DOMAIN runningProjects
    THEN [present |-> TRUE, record |-> heap[runningProjects[name]],
          subprocess |-> procs[runningProjects[name]]]
    ELSE [present |-> FALSE, record |-> Collected, subprocess |-> Settled]

\* the step is a request for name, or an event of a subprocess started for name
Concerns(name) ==
    \/ \E t \in TemplateInputs, copy \in {"ok", "partial", "none"} : Create(name, t, copy)
    \/ \E body \in StartBodies, spawn \in SpawnInputs, pid \in PidInputs :
          Start(name, body, spawn, pid)
    \/ \E kill \in {"sent", "throw"} : Stop(name, kill)
    \/ \E q \in LimitInputs : GetLogs(name, q)
    \/ \E ref \in Refs :
          /\ heap[ref].name = name
          /\ \/ \E type \in {"[stdout]", "[stderr]"} : StreamData(ref, type)
             \/ \E outcome \in {"success", "error"} : ExitObserved(ref, outcome)
             \/ \E timer \in timers : timer.ref = ref /\ Escalate(timer)

\* C16: a request for one name, and an event of a subprocess of that name, leaves
\* what the controller holds for every other name as it is: the presence of its
\* record, the record's status, launch fields and buffer, and its subprocess.
C16_OtherNamesUntouched ==
    [][\A other \in ValidNames :
          HeldFor(other)' = HeldFor(other) \/
          \A name \in ValidNames \ {other} : ~Concerns(name)]_vars

\* C16 witness: both names have a record; the one of NameA is stopping and holds a
\* chunk, the one of NameB is running with nothing but its started entry.
C16_Witness ==
    /\ NameA \in DOMAIN runningProjects
    /\ NameB \in DOMAIN runningProjects
    /\ heap[runningProjects[NameA]].status = "stopping"
    /\ Len(heap[runningProjects[NameA]].logs) = 2
    /\ heap[runningProjects[NameB]].status = "running"
    /\ Len(heap[runningProjects[NameB]].logs) = 1
    /\ Alive(runningProjects[NameB])

\* C17: the live child of a record whose status is stopping has been sent SIGTERM,
\* and the record holds a "stop requested" entry only then.  (Violated by the code:
\* the stop handler sets the status and appends the entry before it calls kill.)
C17_StoppingImpliesSignalled ==
    \A name \in DOMAIN runningProjects :
        LET rec == heap[runningProjects[name]]
        IN  (/\ Alive(rec.process)
             /\ \/ rec.status = "stopping"
                \/ \E k \in 1..Len(rec.logs) : rec.logs[k].line = <<"stop requested">>) =>
               procs[rec.process].sig # "none"

\* the entry the start handler puts in the buffer of a new record
StartedEntry(rec) ==
    Entry(rec.startedAt, "[system]", <<"started command:", rec.command>> \o JoinArgs(rec.args), 0)

\* C18: the buffer of a record starts as its own "started command" entry alone, and
\* every entry ever appended to it comes from a handler or from a callback of the
\* record's own subprocess, never from a subprocess of an earlier instance.
C18_RestartLogIsolation ==
    /\ [](\A ref \in Refs :
            heap[ref] # Collected =>
               /\ Len(history[ref]) >= 1
               /\ history[ref][1] = Appended(StartedEntry(heap[ref]), 0)
               /\ \A k \in 1..Len(history[ref]) : history[ref][k].by \in {0, ref}
               /\ \A k \in 1..Len(heap[ref].logs) :
                     \E h \in 1..Len(history[ref]) : history[ref][h].entry = heap[ref].logs[k])
    /\ [][Len(heap') > Len(heap) =>
             heap'[Len(heap')].logs = <<StartedEntry(heap'[Len(heap')])>>]_vars

\* C18 witness: the first instance of NameA exited while its forced-kill timer was
\* pending; the second instance holds its started entry and one chunk of its own.
C18_Witness ==
    /\ Len(heap) = 2
    /\ heap[1] = Collected
    /\ \E timer \in timers : timer.ref = 1
    /\ InRegistry(2)
    /\ Len(heap[2].logs) = 2
    /\ heap[2].logs[1] = StartedEntry(heap[2])
    /\ history[2][2].by = 2

\* C19: every child process whose exit has not been observed belongs to the record
\* the registry holds for its project name: it is listed by /projects/running and
\* a stop request for the name is accepted and signals that child.
C19_NoOrphans ==
    \A ref \in Refs :
        (procs[ref].child /\ ~procs[ref].settled) =>
            /\ heap[ref] # Collected
            /\ heap[ref].name \in DOMAIN runningProjects
            /\ runningProjects[heap[ref].name] = ref
            /\ heap[ref].process = ref
            /\ heap[ref].name \in ListedNames
            /\ StopReply(heap[ref].name, "sent").status = 200
            /\ SignalTargets(heap[runningProjects[heap[ref].name]].process,
                             heap[ref].pid) = {ref}

\* C19 witness: a restarted project: the child of the second instance is alive and
\* registered under NameA after the child of the first instance has exited.
C19_Witness ==
    /\ Len(heap) = 2
    /\ procs[1].settled
    /\ procs[2].child /\ ~procs[2].settled
    /\ runningProjects[NameA] = 2
    /\ heap[2].status = "running"
    /\ heap[2].pid \in Pids

====
